---------------------------- MODULE Spec2Model ----------------------------
(***************************************************************************)
(* Cerbero-Go: a file-sharing HTTP daemon (src/main.go).                   *)
(*                                                                         *)
(* src/main.go holds two complete programs, one after the other: release   *)
(* v1.1 (lines 1-181) and release v1.0 (lines 183-404).  A build is one of *)
(* the two; the variable  build  says which, and is fixed at start-up.     *)
(* isRateLimited, securePath, checkPassword and humanSize are the same in  *)
(* both releases; the upload, download and delete handlers differ.         *)
(*                                                                         *)
(* Strings that the code inspects character by character (paths, file      *)
(* names) are sequences of one-character strings.                          *)
(***************************************************************************)
EXTENDS Integers, Sequences, FiniteSets, TLC

VARIABLES
    build,          \* "v11" (main.go:1-181) or "v10" (main.go:183-404)
    rootDir,        \* var rootDir, absolute after main (main.go:163-164)
    maxUploadMB,    \* var maxUploadMB
    password,       \* var password ("" = no password configured)
    enableDelete,   \* var enableDelete
    tracker,        \* var tracker: [lastAccess: ip -> time, mu: 0 (unlocked) or the holding goroutine]
    now,            \* the wall clock read by time.Now / time.Since
    fs,             \* the file system: absolute path -> [kind, data]
    last,           \* the last answered request: handler, status code, steps run, file operation
    admitted,       \* history: ip -> time of the client's last admitted call
    reqs,           \* in-flight uploadHandler goroutines inside isRateLimited
    requestedPath,  \* securePath's argument (path specification)
    resolved        \* securePath's result for requestedPath, or Pending

vars == <<build, rootDir, maxUploadMB, password, enableDelete, tracker, now,
          fs, last, admitted, reqs, requestedPath, resolved>>

(***************************************************************************)
(* Bounds of the model.                                                    *)
(***************************************************************************)
\* longest requested path enumerated exhaustively
MaxLen == 5
\* concurrent upload goroutines
NumRequests == 2

(***************************************************************************)
(* Strings.                                                                *)
(***************************************************************************)
Alphabet == {"/", ".", "a", "b"}

RECURSIVE StringsUpTo(_)
StringsUpTo(n) ==
    IF n = 0 THEN {<<>>}
    ELSE LET shorter == StringsUpTo(n - 1)
         IN  shorter \cup {Append(s, c) : s \in {t \in shorter : Len(t) = n - 1}, c \in Alphabet}

\* strings.HasPrefix
HasPrefix(s, prefix) ==
    /\ Len(prefix) <= Len(s)
    /\ SubSeq(s, 1, Len(prefix)) = prefix

\* index of the first "/" at or after r, or Len(path)+1
RECURSIVE ElemEnd(_, _)
ElemEnd(path, r) ==
    IF r > Len(path) \/ path[r] = "/" THEN r ELSE ElemEnd(path, r + 1)

\* lazybuf backtrack of filepath.Clean: out.w--; for out.w > dotdot && out[out.w] != '/' { out.w-- }
RECURSIVE BacktrackTo(_, _, _)
BacktrackTo(out, w, dotdot) ==
    IF w > dotdot /\ out[w + 1] # "/" THEN BacktrackTo(out, w - 1, dotdot) ELSE w

Backtrack(out, dotdot) == SubSeq(out, 1, BacktrackTo(out, Len(out) - 1, dotdot))

\* the main loop of filepath.Clean; r is the read index (1-based), out the output buffer
RECURSIVE CleanLoop(_, _, _, _, _)
CleanLoop(path, r, out, dotdot, rooted) ==
    LET n == Len(path) IN
    IF r > n THEN out
    ELSE IF path[r] = "/" THEN CleanLoop(path, r + 1, out, dotdot, rooted)
    ELSE IF path[r] = "." /\ (r + 1 > n \/ path[r + 1] = "/")
         THEN CleanLoop(path, r + 1, out, dotdot, rooted)
    ELSE IF path[r] = "." /\ path[r + 1] = "." /\ (r + 2 > n \/ path[r + 2] = "/")
         THEN IF Len(out) > dotdot
                 THEN CleanLoop(path, r + 2, Backtrack(out, dotdot), dotdot, rooted)
              ELSE IF ~rooted
                 THEN LET o2 == (IF Len(out) > 0 THEN Append(out, "/") ELSE out) \o <<".", ".">>
                      IN  CleanLoop(path, r + 2, o2, Len(o2), rooted)
              ELSE CleanLoop(path, r + 2, out, dotdot, rooted)
    ELSE LET sep == (rooted /\ Len(out) # 1) \/ (~rooted /\ Len(out) # 0)
             o2  == IF sep THEN Append(out, "/") ELSE out
             e   == ElemEnd(path, r)
         IN  CleanLoop(path, e, o2 \o SubSeq(path, r, e - 1), dotdot, rooted)

\* filepath.Clean (Unix)
Clean(path) ==
    IF path = <<>> THEN <<".">>
    ELSE LET rooted == path[1] = "/"
             out    == IF rooted
                          THEN CleanLoop(path, 2, <<"/">>, 1, TRUE)
                          ELSE CleanLoop(path, 1, <<>>, 0, FALSE)
         IN  IF out = <<>> THEN <<".">> ELSE out

\* filepath.Join of two elements (Unix): the non-empty elements joined by "/", cleaned
Join(a, b) ==
    IF a # <<>> THEN Clean(a \o <<"/">> \o b)
    ELSE IF b # <<>> THEN Clean(b)
    ELSE <<>>

\* the process's working directory, for filepath.Abs of a relative -root
Cwd == <<"/">>

\* filepath.Abs
Abs(path) == IF path # <<>> /\ path[1] = "/" THEN Clean(path) ELSE Join(Cwd, path)

RECURSIVE StripTrailingSlashes(_)
StripTrailingSlashes(path) ==
    IF Len(path) > 0 /\ path[Len(path)] = "/"
       THEN StripTrailingSlashes(SubSeq(path, 1, Len(path) - 1))
       ELSE path

RECURSIVE LastSlash(_, _)
LastSlash(path, i) ==
    IF i = 0 \/ path[i] = "/" THEN i ELSE LastSlash(path, i - 1)

\* filepath.Base (Unix)
Base(path) ==
    IF path = <<>> THEN <<".">>
    ELSE LET p == StripTrailingSlashes(path)
             q == SubSeq(p, LastSlash(p, Len(p)) + 1, Len(p))
         IN  IF q = <<>> THEN <<"/">> ELSE q

\* filepath.Dir of a clean absolute path: the parent directory
Dir(path) ==
    LET i == LastSlash(path, Len(path))
    IN  IF i <= 1 THEN <<"/">> ELSE SubSeq(path, 1, i - 1)

(***************************************************************************)
(* securePath (main.go:111-116, and the same at 305-312).                  *)
(***************************************************************************)
Denied == [path |-> <<>>, err |-> TRUE]

\* a plausible bug: the requested path is joined without being cleaned against "/" first
securePath_unanchored(requestedPath_) ==
    LET absRoot    == Abs(rootDir)
        targetPath == Join(absRoot, requestedPath_)
    IN  IF ~HasPrefix(targetPath, absRoot) THEN Denied
        ELSE [path |-> targetPath, err |-> FALSE]

\* a plausible bug: the requested path is appended to the root as it came, and the
\* prefix is checked on the uncleaned result
securePath_uncleaned(requestedPath_) ==
    LET absRoot    == Abs(rootDir)
        targetPath == absRoot \o <<"/">> \o requestedPath_
    IN  IF ~HasPrefix(targetPath, absRoot) THEN Denied
        ELSE [path |-> targetPath, err |-> FALSE]

\* a plausible variant: any requested path that climbs above its start is refused
securePath_refuseClimb(requestedPath_) ==
    LET absRoot    == Abs(rootDir)
        cleaned    == Clean(requestedPath_)
        targetPath == Join(absRoot, Clean(<<"/">> \o requestedPath_))
    IN  IF cleaned = <<".", ".">> \/ HasPrefix(cleaned, <<".", ".", "/">>) THEN Denied
        ELSE IF ~HasPrefix(targetPath, absRoot) THEN Denied
        ELSE [path |-> targetPath, err |-> FALSE]

securePath(requestedPath_) ==
    LET absRoot    == Abs(rootDir)
        targetPath == Join(absRoot, Clean(<<"/">> \o requestedPath_))
    IN  IF ~HasPrefix(targetPath, absRoot) THEN Denied
        ELSE [path |-> targetPath, err |-> FALSE]


(***************************************************************************)
(* Program constants and the scale of the model.                           *)
(***************************************************************************)
\* clock ticks per second (time.Second, in ticks)
Second == 2
\* last clock tick: long enough for one full interval to pass after an admission
MaxTime == 1 * Second
\* bytes per megabyte in the model, scaled down from 1<<20:
\* int64(maxUploadMB)<<20 is maxUploadMB * MiB
MiB == 3

Builds == {"v11", "v10"}
RootA == <<"/", "a">>
\* values of the -root flag: an absolute and a relative spelling of the same folder
RootFlags == {RootA, <<"a">>}
Passwords == {"", "pw"}
\* client addresses (the host part of r.RemoteAddr)
Hosts == {"h1", "h2"}
\* the client of the sequential server specification; what one client's requests do
\* to another's is the matter of the limiter specification, which has them all
Callers == {"h1"}
\* values of the "password" form field; "" also stands for a missing field
SentPasswords == {"", "pw", "no"}

\* file contents uploaded
Datas == { <<>>, <<"x">>, <<"y">>, <<"x", "y">> }

(***************************************************************************)
(* The file system: a function from absolute paths to entries.             *)
(***************************************************************************)
\* mod is the modification time; a directory's is never looked at
DirEntry == [kind |-> "dir", data |-> <<>>, mod |-> 0]
\* a file that was there when the server started
OldFile(d) == [kind |-> "file", data |-> d, mod |-> 0]
\* a file written now
FileEntry(d) == [kind |-> "file", data |-> d, mod |-> now]

\* a file beside the root whose name extends the root's name, as /a and /ab
Sibling == <<"/", "a", "b">>

\* after os.MkdirAll(rootDir, 0755) (main.go:165): the root exists and is empty
InitialFs(root) ==
    [p \in {<<"/">>, root, Sibling} |->
        IF p = Sibling THEN OldFile(<<"x">>) ELSE DirEntry]

IsDir(f, p) == p \in DOMAIN f /\ f[p].kind = "dir"
IsFile(f, p) == p \in DOMAIN f /\ f[p].kind = "file"

\* p lies below directory d
Below(d, p) ==
    IF d = <<"/">> THEN p # d /\ HasPrefix(p, d)
    ELSE HasPrefix(p, Append(d, "/"))

\* os.Create: O_RDWR|O_CREATE|O_TRUNC.  Fails on "", on a directory, and when the
\* parent is no directory.
CreateOk(f, p) ==
    /\ p # <<>>
    /\ ~IsDir(f, p)
    /\ IsDir(f, Dir(p))

Create(f, p) ==
    IF CreateOk(f, p)
       THEN [q \in DOMAIN f \cup {p} |-> IF q = p THEN FileEntry(<<>>) ELSE f[q]]
       ELSE f

\* io.Copy(dst, file): the bytes written reach the file opened at p
Write(f, p, d) == [f EXCEPT ![p] = FileEntry(d)]

\* os.Remove: unlink a file, rmdir an empty directory; anything else is an error
RemoveOk(f, p) ==
    /\ p \in DOMAIN f
    /\ \/ f[p].kind = "file"
       \/ /\ p # <<"/">>
          /\ \A q \in DOMAIN f : ~Below(p, q)

Remove(f, p) ==
    IF RemoveOk(f, p) THEN [q \in DOMAIN f \ {p} |-> f[q]] ELSE f

(***************************************************************************)
(* isRateLimited (main.go:103-109, and the same at 294-303), as one        *)
(* critical section.                                                       *)
(***************************************************************************)
\* main.go:106: exists && time.Since(last) < 1*time.Second
TooSoon(lastAccess, ip, t) ==
    /\ ip \in DOMAIN lastAccess
    /\ t - lastAccess[ip] < 1 * Second

\* main.go:107: tracker.lastAccess[ip] = time.Now()
Record(lastAccess, ip, t) ==
    [h \in DOMAIN lastAccess \cup {ip} |-> IF h = ip THEN t ELSE lastAccess[h]]

\* the result, and the map afterwards
isRateLimited(ip) ==
    IF TooSoon(tracker.lastAccess, ip, now)
       THEN [limited |-> TRUE, lastAccess |-> tracker.lastAccess]
       ELSE [limited |-> FALSE, lastAccess |-> Record(tracker.lastAccess, ip, now)]

(***************************************************************************)
(* checkPassword (main.go:118-121, and the same at 314-318).               *)
(***************************************************************************)
\* subtle.ConstantTimeCompare(x, y) == 1
ConstantTimeCompare(x, y) == x = y

\* a plausible bug: no open mode, the supplied value is always compared
checkPassword_alwaysCompared(sent) == ConstantTimeCompare(sent, password)

checkPassword(sent) ==
    IF password = "" THEN TRUE ELSE ConstantTimeCompare(sent, password)


(***************************************************************************)
(* Requests.                                                               *)
(***************************************************************************)
\* header.Filename values: a plain name, a name with a directory, ".." and "."
\* (a part with an empty file name is no file part)
FileNames == { <<"b">>, <<"a", "/", "b">>, <<".", ".">>, <<".">> }

\* a body within the ceiling: no file part, or a file part with its name and content.
\* written is how many bytes io.Copy gets onto the disk (fewer than Len(data): an
\* I/O error such as a full disk); extra is the size of the parts other than the file.
\* The plain name comes with every content and every outcome of the copy, the other
\* names with one content, copied whole.
SmallBodies ==
    { [hasFile |-> FALSE, filename |-> <<>>, data |-> <<>>, written |-> 0, extra |-> 0] }
    \cup
    { [hasFile |-> TRUE, filename |-> <<"b">>, data |-> d, written |-> w, extra |-> 0] :
         d \in Datas, w \in 0 .. 2 }
    \cup
    { [hasFile |-> TRUE, filename |-> n, data |-> <<"y">>, written |-> 1, extra |-> 0] :
         n \in FileNames }

\* bodies beyond the ceiling
LargeBodies ==
    { [hasFile |-> FALSE, filename |-> <<>>, data |-> <<>>, written |-> 0,
       extra |-> maxUploadMB * MiB] }
    \cup
    { [hasFile |-> TRUE, filename |-> <<"b">>, data |-> d, written |-> Len(d),
       extra |-> maxUploadMB * MiB] : d \in {<<"x">>, <<"y">>} }

Bodies == {b \in SmallBodies : b.written <= Len(b.data)} \cup LargeBodies

\* the upload request: multipart says whether the body is a well-formed
\* multipart/form-data body; sent is its "password" field
PostUploads ==
    { [method |-> "POST", host |-> h, multipart |-> FALSE, sent |-> "", hasFile |-> FALSE,
       filename |-> <<>>, data |-> <<>>, written |-> 0, extra |-> 0] : h \in Callers }
    \cup
    { [method |-> "POST", host |-> h, multipart |-> TRUE, sent |-> s,
       hasFile |-> b.hasFile, filename |-> b.filename, data |-> b.data,
       written |-> b.written, extra |-> b.extra] :
         h \in Callers, s \in SentPasswords, b \in Bodies }

\* a well-formed body sent with another method
GetUploads ==
    { [method |-> "GET", host |-> h, multipart |-> TRUE, sent |-> "pw", hasFile |-> TRUE,
       filename |-> <<"b">>, data |-> <<"x">>, written |-> 1, extra |-> 0] : h \in Callers }

UploadRequests == PostUploads \cup GetUploads

\* size of the request body: the file part, the other parts, the closing boundary
BodyLen(req) == Len(req.data) + req.extra + 1

\* what http.MaxBytesReader followed by ParseMultipartForm accepts (main.go:139-140)
ParsesWithin(req, limit) == req.multipart /\ BodyLen(req) <= limit

\* paths asked of /download/: files, the root under several spellings, traversals
\* towards the sibling of the root, an absolute path
RelPaths ==
    { <<"b">>, <<"a", "b">>, <<>>, <<".", ".">>, <<".", ".", "/", "a", "b">>,
      <<"/", "a", "b">>, <<"a", "/", ".", ".", "/", "b">>, <<".">> }

\* values of the "path" field of /delete
DeletePaths ==
    { <<"b">>, <<>>, <<".", ".">>, <<".", ".", "/", "a", "b">>,
      <<"a", "/", ".", ".", "/", "b">> }

DeleteRequests == [path : DeletePaths, sent : SentPasswords]

DownloadPrefix == <<"/", "d", "o", "w", "n", "l", "o", "a", "d", "/">>

(***************************************************************************)
(* Responses.                                                              *)
(***************************************************************************)
NoFileOp == [op |-> "none", path |-> <<>>]

\* handler: which handler answered; code: the HTTP status; steps: the steps the handler
\* ran, in order; failed: the steps that returned an error; op, path: the file
\* operation issued and its path; kind, body: what a download sent back
Answer(handler, code, steps, failed, fileOp, kind, body) ==
    [handler |-> handler, code |-> code, steps |-> steps, failed |-> failed,
     op |-> fileOp.op, path |-> fileOp.path, kind |-> kind, body |-> body]

NoAnswer == Answer("none", 0, <<>>, {}, NoFileOp, "none", <<>>)


(***************************************************************************)
(* uploadHandler, release v1.1 (main.go:136-154).                          *)
(***************************************************************************)
\* a plausible bug: the destination file is created before the password is checked
UploadAdmitted_createFirst(req) ==
    LET limit   == maxUploadMB * MiB
        dstPath == securePath(Base(req.filename)).path
        written == SubSeq(req.data, 1, req.written)
        created == IF req.hasFile /\ CreateOk(fs, dstPath) THEN Create(fs, dstPath) ELSE fs
        create  == [op |-> "create", path |-> dstPath]
    IN  IF ~ParsesWithin(req, limit)
           THEN [code |-> 400, steps |-> <<"limit", "parse">>, failed |-> {"parse"},
                 fileOp |-> NoFileOp, fs |-> fs]
        ELSE IF ~checkPassword(req.sent)
           THEN [code |-> 401, steps |-> <<"limit", "parse", "password">>,
                 failed |-> {"password"}, fileOp |-> NoFileOp, fs |-> created]
        ELSE IF ~req.hasFile
           THEN [code |-> 400, steps |-> <<"limit", "parse", "password", "file">>,
                 failed |-> {"file"}, fileOp |-> NoFileOp, fs |-> fs]
        ELSE IF ~CreateOk(fs, dstPath)
           THEN [code |-> 500,
                 steps |-> <<"limit", "parse", "password", "file", "path", "create">>,
                 failed |-> {"create"}, fileOp |-> create, fs |-> fs]
        ELSE [code |-> 303,
              steps |-> <<"limit", "parse", "password", "file", "path", "create", "copy">>,
              failed |-> IF req.written < Len(req.data) THEN {"copy"} ELSE {},
              fileOp |-> create, fs |-> Write(created, dstPath, written)]

\* main.go:139-153: the handler after the rate check has admitted the request
UploadAdmitted(req) ==
    LET limit   == maxUploadMB * MiB
        dstPath == securePath(Base(req.filename)).path
        written == SubSeq(req.data, 1, req.written)
        copied  == Write(Create(fs, dstPath), dstPath, written)
        create  == [op |-> "create", path |-> dstPath]
    IN  IF ~ParsesWithin(req, limit)
           THEN [code |-> 400, steps |-> <<"limit", "parse">>, failed |-> {"parse"},
                 fileOp |-> NoFileOp, fs |-> fs]
        ELSE IF ~checkPassword(req.sent)
           THEN [code |-> 401, steps |-> <<"limit", "parse", "password">>,
                 failed |-> {"password"}, fileOp |-> NoFileOp, fs |-> fs]
        ELSE IF ~req.hasFile
           THEN [code |-> 400, steps |-> <<"limit", "parse", "password", "file">>,
                 failed |-> {"file"}, fileOp |-> NoFileOp, fs |-> fs]
        ELSE IF ~CreateOk(fs, dstPath)
           THEN [code |-> 500,
                 steps |-> <<"limit", "parse", "password", "file", "path", "create">>,
                 failed |-> {"create"}, fileOp |-> create, fs |-> fs]
        ELSE [code |-> 303,
              steps |-> <<"limit", "parse", "password", "file", "path", "create", "copy">>,
              failed |-> IF req.written < Len(req.data) THEN {"copy"} ELSE {},
              fileOp |-> create, fs |-> copied]

(***************************************************************************)
(* uploadHandler, release v1.0 (main.go:352-368).                          *)
(***************************************************************************)
\* main.go:355-367.  checkPassword runs before http.MaxBytesReader: with a password
\* configured, r.FormValue parses the whole body (ParseMultipartForm with no ceiling,
\* its error dropped), and r.FormFile then finds the form already parsed.  The errors
\* of securePath and os.Create are dropped as well.
UploadAdmitted_v10(req) ==
    LET limit       == maxUploadMB * MiB
        earlyParse  == password # ""
        parsedEarly == earlyParse /\ req.multipart
        sentSeen    == IF parsedEarly THEN req.sent ELSE ""
        steps1      == <<"method">> \o (IF earlyParse THEN <<"parse">> ELSE <<>>) \o <<"password">>
        parsedOk    == parsedEarly \/ ParsesWithin(req, limit)
        steps2      == steps1 \o <<"limit">> \o (IF parsedEarly THEN <<>> ELSE <<"parse">>)
        dstPath     == securePath(Base(req.filename)).path
        createOk    == CreateOk(fs, dstPath)
        written     == SubSeq(req.data, 1, req.written)
        copied      == Write(Create(fs, dstPath), dstPath, written)
        create      == [op |-> "create", path |-> dstPath]
    IN  IF req.method # "POST"
           THEN [code |-> 405, steps |-> <<"method">>, failed |-> {"method"},
                 fileOp |-> NoFileOp, fs |-> fs]
        ELSE IF ~checkPassword(sentSeen)
           THEN [code |-> 401, steps |-> steps1, failed |-> {"password"},
                 fileOp |-> NoFileOp, fs |-> fs]
        ELSE IF ~parsedOk
           THEN [code |-> 400, steps |-> steps2, failed |-> {"parse"},
                 fileOp |-> NoFileOp, fs |-> fs]
        ELSE IF ~req.hasFile
           THEN [code |-> 400, steps |-> steps2 \o <<"file">>, failed |-> {"file"},
                 fileOp |-> NoFileOp, fs |-> fs]
        ELSE [code |-> 303,
              steps |-> steps2 \o <<"file", "path", "create", "copy">>,
              failed |-> IF ~createOk THEN {"create", "copy"}
                         ELSE IF req.written < Len(req.data) THEN {"copy"} ELSE {},
              fileOp |-> create,
              fs |-> IF createOk THEN copied ELSE fs]

\* a plausible bug: the access time is recorded only when the upload succeeds
Upload_recordOnSuccess(req, out) ==
    LET rl == isRateLimited(req.host)
        ok == ~rl.limited /\ out.code = 303
    IN
    /\ tracker.mu = 0
    /\ tracker' = [tracker EXCEPT !.lastAccess = IF ok THEN rl.lastAccess ELSE @]
    /\ IF rl.limited
          THEN /\ fs' = fs
               /\ last' = Answer("upload", 429, <<"rate">>, {"rate"}, NoFileOp, "none", <<>>)
          ELSE /\ fs' = out.fs
               /\ last' = Answer("upload", out.code, <<"rate">> \o out.steps, out.failed,
                                 out.fileOp, "none", <<>>)
    /\ admitted' = IF ok THEN Record(admitted, req.host, now) ELSE admitted
    /\ UNCHANGED <<build, rootDir, maxUploadMB, password, enableDelete, now, reqs,
                   requestedPath, resolved>>

\* main.go:137-138 (and 353-354), then the release's own handler body
Upload(req, out) ==
    LET rl == isRateLimited(req.host) IN
    /\ tracker.mu = 0
    /\ tracker' = [tracker EXCEPT !.lastAccess = rl.lastAccess]
    /\ IF rl.limited
          THEN /\ fs' = fs
               /\ last' = Answer("upload", 429, <<"rate">>, {"rate"}, NoFileOp, "none", <<>>)
          ELSE /\ fs' = out.fs
               /\ last' = Answer("upload", out.code, <<"rate">> \o out.steps, out.failed,
                                 out.fileOp, "none", <<>>)
    /\ admitted' = IF rl.limited THEN admitted ELSE Record(admitted, req.host, now)
    /\ UNCHANGED <<build, rootDir, maxUploadMB, password, enableDelete, now, reqs,
                   requestedPath, resolved>>

uploadHandler(req) ==
    /\ build = "v11"
    /\ Upload(req, UploadAdmitted(req))

uploadHandler_v10(req) ==
    /\ build = "v10"
    /\ Upload(req, UploadAdmitted_v10(req))


(***************************************************************************)
(* http.ServeFile, as far as the handlers depend on it.                    *)
(***************************************************************************)
\* strings.TrimPrefix
TrimPrefix(str, prefix) ==
    IF HasPrefix(str, prefix) THEN SubSeq(str, Len(prefix) + 1, Len(str)) ELSE str

\* net/http containsDotDot: some "/"-separated element of v is ".."
ContainsDotDot(v) ==
    \E i \in 1 .. Len(v) - 1 :
        /\ v[i] = "." /\ v[i + 1] = "."
        /\ (i = 1 \/ v[i - 1] = "/")
        /\ (i + 1 = Len(v) \/ v[i + 2] = "/")

\* ServeFile(w, r, name) over the files on disk: rejects a URL path with a ".."
\* element, answers 404 when name does not exist, redirects or lists when it is a
\* directory, and otherwise sends the file's content
ServeFile(disk, urlPath, name) ==
    LET serve == [op |-> "serve", path |-> name] IN
    IF ContainsDotDot(urlPath)
       THEN [code |-> 400, fileOp |-> NoFileOp, kind |-> "none", body |-> <<>>]
    ELSE IF name \notin DOMAIN disk
       THEN [code |-> 404, fileOp |-> serve, kind |-> "none", body |-> <<>>]
    ELSE IF disk[name].kind = "dir"
       THEN IF urlPath[Len(urlPath)] # "/"
               THEN [code |-> 301, fileOp |-> serve, kind |-> "none", body |-> <<>>]
               ELSE [code |-> 200, fileOp |-> serve, kind |-> "dirlist", body |-> <<>>]
    ELSE [code |-> 200, fileOp |-> serve, kind |-> "file", body |-> disk[name].data]

(***************************************************************************)
(* The download handlers: main.go:168-172 (v1.1) and 370-375 (v1.0).       *)
(***************************************************************************)
\* the answer to a download of urlPath when the disk holds the files of disk
DownloadFrom(disk, urlPath) ==
    LET abs == securePath(TrimPrefix(urlPath, DownloadPrefix))
        out == ServeFile(disk, urlPath, abs.path)
    IN  IF abs.err
           THEN Answer("download", 403, <<"path">>, {"path"}, NoFileOp, "none", <<>>)
           ELSE Answer("download", out.code, <<"path", "serve">>,
                       IF out.code >= 400 THEN {"serve"} ELSE {},
                       out.fileOp, out.kind, out.body)

\* a plausible bug: the download is put behind the password like upload and delete
Download_gated(urlPath) ==
    IF password # ""
       THEN Answer("download", 401, <<"password">>, {"password"}, NoFileOp, "none", <<>>)
       ELSE DownloadFrom(fs, urlPath)

Download(urlPath) == DownloadFrom(fs, urlPath)

main_download(urlPath) ==
    /\ build = "v11"
    /\ last' = Download(urlPath)
    /\ UNCHANGED <<build, rootDir, maxUploadMB, password, enableDelete, tracker, now, fs,
                   admitted, reqs, requestedPath, resolved>>

downloadHandler(urlPath) ==
    /\ build = "v10"
    /\ last' = Download(urlPath)
    /\ UNCHANGED <<build, rootDir, maxUploadMB, password, enableDelete, tracker, now, fs,
                   admitted, reqs, requestedPath, resolved>>

(***************************************************************************)
(* The delete handlers: main.go:173-178 (v1.1) and 377-383 (v1.0).         *)
(***************************************************************************)
\* main.go:175 (and 380-381): resolve the path field and remove what it names
RemoveRequested(req, steps) ==
    LET sp == securePath(req.path) IN
    IF sp.err
       THEN [steps |-> steps \o <<"path">>, failed |-> {"path"}, fileOp |-> NoFileOp, fs |-> fs]
       ELSE [steps |-> steps \o <<"path", "remove">>,
             failed |-> IF RemoveOk(fs, sp.path) THEN {} ELSE {"remove"},
             fileOp |-> [op |-> "remove", path |-> sp.path],
             fs |-> Remove(fs, sp.path)]

\* a plausible bug: the -delete flag is not consulted
DeleteOutcome_noFlag(req) ==
    IF checkPassword(req.sent)
       THEN LET out == RemoveRequested(req, <<"flag", "password">>)
            IN  [code |-> 303, steps |-> out.steps, failed |-> out.failed,
                 fileOp |-> out.fileOp, fs |-> out.fs]
       ELSE [code |-> 303, steps |-> <<"flag", "password">>, failed |-> {"password"},
             fileOp |-> NoFileOp, fs |-> fs]

\* main.go:174-177: the redirect follows whatever happened
DeleteOutcome(req) ==
    IF ~enableDelete
       THEN [code |-> 303, steps |-> <<"flag">>, failed |-> {"flag"},
             fileOp |-> NoFileOp, fs |-> fs]
    ELSE IF ~checkPassword(req.sent)
       THEN [code |-> 303, steps |-> <<"flag", "password">>, failed |-> {"password"},
             fileOp |-> NoFileOp, fs |-> fs]
    ELSE LET out == RemoveRequested(req, <<"flag", "password">>)
         IN  [code |-> 303, steps |-> out.steps, failed |-> out.failed,
              fileOp |-> out.fileOp, fs |-> out.fs]

\* main.go:378-382: a bare return when deleting is disabled (status 200, empty
\* body), 401 on a wrong password
DeleteOutcome_v10(req) ==
    IF ~enableDelete
       THEN [code |-> 200, steps |-> <<"flag">>, failed |-> {"flag"},
             fileOp |-> NoFileOp, fs |-> fs]
    ELSE IF ~checkPassword(req.sent)
       THEN [code |-> 401, steps |-> <<"flag", "password">>, failed |-> {"password"},
             fileOp |-> NoFileOp, fs |-> fs]
    ELSE LET out == RemoveRequested(req, <<"flag", "password">>)
         IN  [code |-> 303, steps |-> out.steps, failed |-> out.failed,
              fileOp |-> out.fileOp, fs |-> out.fs]

Delete(out) ==
    /\ fs' = out.fs
    /\ last' = Answer("delete", out.code, out.steps, out.failed, out.fileOp, "none", <<>>)
    /\ UNCHANGED <<build, rootDir, maxUploadMB, password, enableDelete, tracker, now,
                   admitted, reqs, requestedPath, resolved>>

main_delete(req) ==
    /\ build = "v11"
    /\ Delete(DeleteOutcome(req))

deleteHandler(req) ==
    /\ build = "v10"
    /\ Delete(DeleteOutcome_v10(req))

(***************************************************************************)
(* The clock.                                                              *)
(***************************************************************************)
Tick ==
    /\ now < MaxTime
    /\ now' = now + 1
    /\ UNCHANGED <<build, rootDir, maxUploadMB, password, enableDelete, tracker, fs, last,
                   admitted, reqs, requestedPath, resolved>>

(***************************************************************************)
(* The server: main (main.go:156-181 and 385-404) and its handlers, each   *)
(* request handled in one step.                                            *)
(***************************************************************************)
Pending == [path |-> <<>>, err |-> FALSE, pending |-> TRUE]

Idle == [pc |-> "idle", ip |-> "", limited |-> FALSE, at |-> 0]

\* the -maxmb values modelled
UploadLimitsMB == {1}

\* the process right after main has set it up: nothing requested yet
Started ==
    /\ tracker = [lastAccess |-> <<>>, mu |-> 0]
    /\ now = 0
    /\ fs = InitialFs(rootDir)
    /\ last = NoAnswer
    /\ admitted = <<>>
    /\ reqs = [i \in 1 .. NumRequests |-> Idle]
    /\ resolved = Pending

\* after flag.Parse, filepath.Abs and os.MkdirAll
Init ==
    /\ build \in Builds
    /\ rootDir \in {Abs(r) : r \in RootFlags}
    /\ maxUploadMB \in UploadLimitsMB
    /\ password \in Passwords
    /\ enableDelete \in BOOLEAN
    /\ requestedPath = <<>>
    /\ Started

Next ==
    \/ \E req \in UploadRequests : uploadHandler(req)
    \/ \E req \in UploadRequests : uploadHandler_v10(req)
    \/ \E rel \in RelPaths : main_download(DownloadPrefix \o rel)
    \/ \E rel \in RelPaths : downloadHandler(DownloadPrefix \o rel)
    \/ \E req \in DeleteRequests : main_delete(req)
    \/ \E req \in DeleteRequests : deleteHandler(req)
    \/ Tick

Spec == Init /\ [][Next]_vars


(***************************************************************************)
(* The limiter under concurrency: uploadHandler goroutines of several      *)
(* clients inside isRateLimited (main.go:103-109, 294-303), one statement  *)
(* per step, the clock free to advance between any two of them.            *)
(***************************************************************************)
Slots == 1 .. NumRequests

RateUnchanged == UNCHANGED <<build, rootDir, maxUploadMB, password, enableDelete, fs, last,
                             requestedPath, resolved>>

\* main.go:137-138: a request arrives and its handler calls isRateLimited(host)
Arrive(i, ip) ==
    /\ reqs[i].pc = "idle"
    /\ reqs' = [reqs EXCEPT ![i] = [pc |-> "lock", ip |-> ip, limited |-> FALSE, at |-> 0]]
    /\ UNCHANGED <<tracker, now, admitted>>
    /\ RateUnchanged

\* a plausible bug: the map is used without taking the mutex
Lock_noMutex(i) ==
    /\ reqs[i].pc = "lock"
    /\ tracker' = [tracker EXCEPT !.mu = i]
    /\ reqs' = [reqs EXCEPT ![i].pc = "check"]
    /\ UNCHANGED <<now, admitted>>
    /\ RateUnchanged

\* main.go:104: tracker.mu.Lock()
Lock(i) ==
    /\ reqs[i].pc = "lock"
    /\ tracker.mu = 0
    /\ tracker' = [tracker EXCEPT !.mu = i]
    /\ reqs' = [reqs EXCEPT ![i].pc = "check"]
    /\ UNCHANGED <<now, admitted>>
    /\ RateUnchanged

\* a plausible bug: a rejected call refreshes the client's access time
Check_refresh(i) ==
    /\ reqs[i].pc = "check"
    /\ IF TooSoon(tracker.lastAccess, reqs[i].ip, now)
          THEN /\ reqs' = [reqs EXCEPT ![i].pc = "unlock", ![i].limited = TRUE, ![i].at = now]
               /\ tracker' = [tracker EXCEPT !.lastAccess = Record(tracker.lastAccess, reqs[i].ip, now)]
          ELSE /\ reqs' = [reqs EXCEPT ![i].pc = "store"]
               /\ UNCHANGED tracker
    /\ UNCHANGED <<now, admitted>>
    /\ RateUnchanged

\* main.go:106: the lookup and the comparison with time.Since(last); return true
Check(i) ==
    /\ reqs[i].pc = "check"
    /\ IF TooSoon(tracker.lastAccess, reqs[i].ip, now)
          THEN reqs' = [reqs EXCEPT ![i].pc = "unlock", ![i].limited = TRUE, ![i].at = now]
          ELSE reqs' = [reqs EXCEPT ![i].pc = "store"]
    /\ UNCHANGED <<tracker, now, admitted>>
    /\ RateUnchanged

\* main.go:107-108: tracker.lastAccess[ip] = time.Now(); return false
Store(i) ==
    /\ reqs[i].pc = "store"
    /\ tracker' = [tracker EXCEPT !.lastAccess = Record(tracker.lastAccess, reqs[i].ip, now)]
    /\ reqs' = [reqs EXCEPT ![i].pc = "unlock", ![i].limited = FALSE, ![i].at = now]
    /\ UNCHANGED <<now, admitted>>
    /\ RateUnchanged

\* main.go:105: the deferred tracker.mu.Unlock(); the call returns, admitted or not
Unlock(i) ==
    /\ reqs[i].pc = "unlock"
    /\ tracker' = [tracker EXCEPT !.mu = 0]
    /\ reqs' = [reqs EXCEPT ![i].pc = "done"]
    /\ admitted' = IF reqs[i].limited THEN admitted
                   ELSE Record(admitted, reqs[i].ip, reqs[i].at)
    /\ UNCHANGED now
    /\ RateUnchanged

\* main.go:138: the handler answers 429 or goes on, and the goroutine ends
Proceed(i) ==
    /\ reqs[i].pc = "done"
    /\ reqs' = [reqs EXCEPT ![i] = Idle]
    /\ UNCHANGED <<tracker, now, admitted>>
    /\ RateUnchanged

InitRate ==
    /\ build \in Builds
    /\ rootDir = Abs(RootA)
    /\ maxUploadMB \in UploadLimitsMB
    /\ password = ""
    /\ enableDelete = TRUE
    /\ requestedPath = <<>>
    /\ Started

NextRate ==
    \/ \E i \in Slots, ip \in Hosts : Arrive(i, ip)
    \/ \E i \in Slots : Lock(i)
    \/ \E i \in Slots : Check(i)
    \/ \E i \in Slots : Store(i)
    \/ \E i \in Slots : Unlock(i)
    \/ \E i \in Slots : Proceed(i)
    \/ Tick

SpecRate == InitRate /\ [][NextRate]_vars

(***************************************************************************)
(* securePath on its own: every requested path up to MaxLen characters,    *)
(* and the spec's examples, against a root folder and against "/".         *)
(***************************************************************************)
Traversal ==
    <<".", ".", "/", ".", ".", "/", ".", ".", "/", "e", "t", "c", "/",
      "p", "a", "s", "s", "w", "d">>

ExamplePaths == { Traversal, <<"a", "/", ".", ".", "/", "b">>, <<"b">>, <<>> }

RequestedPaths == StringsUpTo(MaxLen) \cup ExamplePaths

PathUnchanged == UNCHANGED <<build, rootDir, maxUploadMB, password, enableDelete, tracker,
                             now, fs, last, admitted, reqs>>

\* a handler calls securePath(requestedPath)
Resolve ==
    /\ resolved = Pending
    /\ resolved' = [path |-> securePath(requestedPath).path,
                    err |-> securePath(requestedPath).err, pending |-> FALSE]
    /\ UNCHANGED requestedPath
    /\ PathUnchanged

\* the next request asks for one of the examples
Ask(p) ==
    /\ resolved # Pending
    /\ requestedPath' = p
    /\ resolved' = Pending
    /\ PathUnchanged

InitPath ==
    /\ build \in Builds
    /\ rootDir \in {Abs(r) : r \in RootFlags \cup {<<"/">>}}
    /\ maxUploadMB \in UploadLimitsMB
    /\ password = ""
    /\ enableDelete = TRUE
    /\ requestedPath \in RequestedPaths
    /\ Started

NextPath ==
    \/ Resolve
    \/ \E p \in ExamplePaths : Ask(p)

SpecPath == InitPath /\ [][NextPath]_vars


(***************************************************************************)
(* renderIndex (main.go:123-134, v1.0: 322-350) and the server with a root *)
(* that already holds a file and a directory.                              *)
(***************************************************************************)
\* bytes of file names in ascending order
ByteOrder == <<".", "/", "a", "b", "c", "d">>

ByteRank(c) == CHOOSE i \in DOMAIN ByteOrder : ByteOrder[i] = c

\* string comparison: name x sorts before name y
RECURSIVE NameBefore(_, _)
NameBefore(x, y) ==
    IF y = <<>> THEN FALSE
    ELSE IF x = <<>> THEN TRUE
    ELSE IF Head(x) # Head(y) THEN ByteRank(Head(x)) < ByteRank(Head(y))
    ELSE NameBefore(Tail(x), Tail(y))

\* the entries directly under directory d
Children(f, d) == { p \in DOMAIN f : p # d /\ Dir(p) = d }

\* os.ReadDir(rootDir): the entries of the directory sorted by file name; an error
\* when rootDir is no directory
RECURSIVE SortedByName(_)
SortedByName(paths) ==
    IF paths = {} THEN <<>>
    ELSE LET first == CHOOSE p \in paths :
                          \A q \in paths \ {p} : NameBefore(Base(p), Base(q))
         IN  <<first>> \o SortedByName(paths \ {first})

ReadDir(f, d) ==
    IF IsDir(f, d) THEN [entries |-> SortedByName(Children(f, d)), err |-> FALSE]
    ELSE [entries |-> <<>>, err |-> TRUE]

\* main.go:130: the FileInfo of an entry (HumanSize and RelPath are derived from
\* Size and Name)
FileInfo(f, p) == [Name |-> Base(p), Size |-> Len(f[p].data), ModTime |-> f[p].mod]

\* a plausible bug: oldest first
Less_oldestFirst(x, y) == x.ModTime < y.ModTime

\* main.go:132: files[i].ModTime.After(files[j].ModTime)
Less(x, y) == x.ModTime > y.ModTime

\* sort.Slice on a short slice: insertion sort with the less function; Insert puts
\* x into the sorted prefix, moving it left while it is less than its neighbour
RECURSIVE Insert(_, _)
Insert(sorted, x) ==
    IF sorted = <<>> THEN <<x>>
    ELSE LET n == Len(sorted) IN
         IF Less(x, sorted[n])
            THEN Append(Insert(SubSeq(sorted, 1, n - 1), x), sorted[n])
            ELSE Append(sorted, x)

RECURSIVE SortSlice(_)
SortSlice(files) ==
    IF files = <<>> THEN <<>>
    ELSE LET n == Len(files)
         IN  Insert(SortSlice(SubSeq(files, 1, n - 1)), files[n])

\* main.go:125-132: the non-directory entries of the root, most recent first
Listing(f, entries) ==
    LET IsRegular(p) == ~IsDir(f, p)
        kept  == SelectSeq(entries, IsRegular)
    IN  SortSlice([i \in DOMAIN kept |-> FileInfo(f, kept[i])])

\* URL paths that the "/" pattern receives
IndexPaths == { <<"/">>, <<"/", "x">> }

Render(code, kind, files) ==
    /\ last' = Answer("index", code, <<"list">>, IF code >= 400 THEN {"list"} ELSE {},
                      NoFileOp, kind, files)
    /\ UNCHANGED <<build, rootDir, maxUploadMB, password, enableDelete, tracker, now, fs,
                   admitted, reqs, requestedPath, resolved>>

\* v1.1 (main.go:123-134): 404 for any path but "/"; the error of os.ReadDir is
\* dropped, which leaves an empty listing
renderIndex(urlPath) ==
    /\ build = "v11"
    /\ IF urlPath # <<"/">>
          THEN Render(404, "none", <<>>)
          ELSE Render(200, "listing", Listing(fs, ReadDir(fs, rootDir).entries))

\* v1.0 (main.go:322-350): every path is listed; 500 when os.ReadDir fails
renderIndex_v10(urlPath) ==
    /\ build = "v10"
    /\ IF ReadDir(fs, rootDir).err
          THEN Render(500, "none", <<>>)
          ELSE Render(200, "listing", Listing(fs, ReadDir(fs, rootDir).entries))

\* a root that holds a file c and a directory d when the server starts
ListedFs(root) ==
    LET c == root \o <<"/", "c">>
        d == root \o <<"/", "d">>
    IN  [p \in DOMAIN InitialFs(root) \cup {c, d} |->
            IF p = c THEN OldFile(<<"x">>)
            ELSE IF p = d THEN DirEntry
            ELSE InitialFs(root)[p]]

InitList ==
    /\ build \in Builds
    /\ rootDir = Abs(RootA)
    /\ maxUploadMB \in UploadLimitsMB
    /\ password = ""
    /\ enableDelete = TRUE
    /\ requestedPath = <<>>
    /\ tracker = [lastAccess |-> <<>>, mu |-> 0]
    /\ now = 0
    /\ fs \in {ListedFs(rootDir), InitialFs(rootDir)}
    /\ last = NoAnswer
    /\ admitted = <<>>
    /\ reqs = [i \in 1 .. NumRequests |-> Idle]
    /\ resolved = Pending

NextList ==
    \/ \E urlPath \in IndexPaths : renderIndex(urlPath)
    \/ \E urlPath \in IndexPaths : renderIndex_v10(urlPath)
    \/ \E req \in UploadRequests : uploadHandler(req)
    \/ \E req \in UploadRequests : uploadHandler_v10(req)
    \/ \E req \in DeleteRequests : main_delete(req)
    \/ \E req \in DeleteRequests : deleteHandler(req)
    \/ Tick

SpecList == InitList /\ [][NextList]_vars


(***************************************************************************)
(* Properties.                                                             *)
(***************************************************************************)
\* p is the directory d or lies below it
Inside(d, p) == p = d \/ Below(d, p)

UploadStep(req) == uploadHandler(req) \/ uploadHandler_v10(req)

DeleteStep(req) == main_delete(req) \/ deleteHandler(req)

\* C1: whatever names and paths the clients send, the path of every file operation a
\* handler issues (create, serve, remove) is the root or lies below it, and everything
\* outside the root is as it was at start-up: nothing there is created, changed or
\* removed.
C1_OperationsStayInsideRoot ==
    /\ last.op # "none" => Inside(Abs(rootDir), last.path)
    /\ \A p \in DOMAIN fs \cup DOMAIN InitialFs(rootDir) :
          ~Inside(Abs(rootDir), p) =>
              /\ p \in DOMAIN fs
              /\ p \in DOMAIN InitialFs(rootDir)
              /\ fs[p] = InitialFs(rootDir)[p]

\* a delete has removed a file below the root, and the sibling of the root is intact
C1_Witness ==
    /\ last.handler = "delete"
    /\ last.op = "remove"
    /\ last.failed = {}
    /\ Below(Abs(rootDir), last.path)
    /\ last.path \notin DOMAIN fs
    /\ IsFile(fs, Sibling)

\* C2: securePath(p) fails or returns a strict descendant of the root, for every p.
C2_ResolvesStrictlyBelowRoot ==
    ~resolved.pending => (resolved.err \/ Below(Abs(rootDir), resolved.path))

\* the requested path, cleaned on its own, starts with a ".." element: it climbs
\* above the directory it is relative to
ClimbsAbove(p) ==
    LET cleaned == Clean(p)
    IN  cleaned = <<".", ".">> \/ HasPrefix(cleaned, <<".", ".", "/">>)

\* C3 as claimed: a path whose ".." segments climb above the root is denied.
C3_TraversalDenied ==
    (~resolved.pending /\ ClimbsAbove(requestedPath)) => resolved.err

\* C3, amended: a path whose ".." segments climb above the root is not denied; the
\* climbing segments are dropped and the path resolves to the root or below it, and
\* "../../../etc/passwd" resolves to <root>/etc/passwd.
C3_TraversalResolvesInside ==
    (~resolved.pending /\ ClimbsAbove(requestedPath)) =>
        /\ ~resolved.err
        /\ Inside(Abs(rootDir), resolved.path)
        /\ requestedPath = Traversal =>
              resolved.path = (IF Abs(rootDir) = <<"/">> THEN <<>> ELSE Abs(rootDir))
                                \o <<"/", "e", "t", "c", "/", "p", "a", "s", "s", "w", "d">>

\* "../../../etc/passwd" has been resolved, under a root other than "/"
C3_Witness ==
    /\ ~resolved.pending
    /\ requestedPath = Traversal
    /\ Abs(rootDir) = RootA
    /\ ~resolved.err

\* the step at main.go:106 taken by goroutine i
CheckStep(i) == reqs[i].pc = "check" /\ reqs'[i].pc # "check"

\* C4: a call of isRateLimited is rejected exactly when the same client has an
\* admitted call less than one second before it: the first call of a client is
\* admitted, a call within the interval of the last admitted one is rejected, and a
\* call an interval or more after the last admitted one is admitted whatever rejected
\* calls, and whatever calls of other clients, came in between.
C4_RejectedIffWithinInterval ==
    [][\A i \in Slots :
          CheckStep(i) =>
              (reqs'[i].pc = "unlock" <=> TooSoon(admitted, reqs[i].ip, now))]_vars

\* a client's call was rejected, and a later call of the same client, a full interval
\* after the admitted one, was admitted
C4_Witness ==
    \E i, j \in Slots :
        /\ reqs[i].pc = "done" /\ reqs[i].limited
        /\ reqs[j].pc = "done" /\ ~reqs[j].limited
        /\ reqs[i].ip = reqs[j].ip
        /\ reqs[j].at > reqs[i].at
        /\ reqs[j].at >= 1 * Second

Holding(i) == reqs[i].pc \in {"check", "store", "unlock"}

Admitted(i) == reqs[i].pc \in {"unlock", "done"} /\ ~reqs[i].limited

\* C5: under every interleaving, at most one goroutine is between the lookup and the
\* update of the map, and two requests of one client that both pass the rate check
\* are at least one second apart.
C5_OneAdmissionPerInterval ==
    \A i, j \in Slots :
        i # j =>
            /\ ~(Holding(i) /\ Holding(j))
            /\ (Admitted(i) /\ Admitted(j) /\ reqs[i].ip = reqs[j].ip) =>
                   \/ reqs[i].at - reqs[j].at >= 1 * Second
                   \/ reqs[j].at - reqs[i].at >= 1 * Second

\* one goroutine is about to record the access time while another of the same client
\* waits for the mutex
C5_Witness ==
    \E i, j \in Slots :
        /\ i # j
        /\ reqs[i].pc = "store"
        /\ reqs[j].pc = "lock"
        /\ reqs[i].ip = reqs[j].ip

\* the password sent is not the configured one
WrongPassword(sent) == password # "" /\ sent # password

\* C6: a delete request with the feature disabled leaves the file store as it was,
\* whatever the password; so does one with a wrong password; with the feature enabled
\* and the right password (or none configured), the file that the path resolves to
\* is absent afterwards.
C6_DeleteGated ==
    [][last'.handler = "delete" =>
          \A req \in DeleteRequests :
              DeleteStep(req) =>
                  /\ ~enableDelete => fs' = fs
                  /\ WrongPassword(req.sent) => fs' = fs
                  /\ (enableDelete /\ ~WrongPassword(req.sent) /\ ~securePath(req.path).err
                        /\ ~IsDir(fs, securePath(req.path).path)) =>
                           securePath(req.path).path \notin DOMAIN fs']_vars

\* with a password configured and deleting enabled, a delete has removed a file
C6_Witness ==
    /\ enableDelete
    /\ password # ""
    /\ last.handler = "delete"
    /\ last.op = "remove"
    /\ last.failed = {}
    /\ last.path = Abs(rootDir) \o <<"/", "b">>
    /\ last.path \notin DOMAIN fs

\* C7: an upload of content B under name n that is answered with the redirect is
\* followed by a download of n that sends exactly B.
C7_UploadThenDownload ==
    [][\A req \in UploadRequests :
          (UploadStep(req) /\ last'.code = 303) =>
              LET got == DownloadFrom(fs', DownloadPrefix \o Base(req.filename))
              IN  got.code = 200 /\ got.kind = "file" /\ got.body = req.data]_vars

\* the steps the claimed order names
InClaimedOrder(step) ==
    step \in {"rate", "limit", "parse", "password", "path", "create", "copy"}

ClaimedOrder == <<"rate", "limit", "parse", "password", "path", "create", "copy">>

\* C8: the upload handler runs rate check, size ceiling, multipart decode, password
\* check, path resolution, create, copy in that order, and a step that fails is the
\* last one it runs.
C8_UploadStepOrder ==
    last.handler = "upload" =>
        LET ran == SelectSeq(last.steps, InClaimedOrder)
        IN  /\ ran = SubSeq(ClaimedOrder, 1, Len(ran))
            /\ last.failed # {} => last.failed = {last.steps[Len(last.steps)]}

\* C9: an upload whose body exceeds the ceiling is answered with an error and leaves
\* the file store as it was.
C9_OversizeRejected ==
    [][\A req \in UploadRequests :
          (UploadStep(req) /\ BodyLen(req) > maxUploadMB * MiB) =>
              (last'.code >= 400 /\ fs' = fs)]_vars

\* C10: an upload answered with the redirect has left the complete content in the
\* destination file, and an upload whose create or copy failed is answered with an
\* error.
C10_NoPartialSuccess ==
    [][\A req \in UploadRequests :
          UploadStep(req) =>
              LET dst == securePath(Base(req.filename)).path IN
              /\ last'.code = 303 => (IsFile(fs', dst) /\ fs'[dst].data = req.data)
              /\ (last'.failed \cap {"create", "copy"} # {}) => last'.code >= 400]_vars

\* C11: the delete handler answers 403 when deleting is disabled, 401 when it is
\* enabled and the password is wrong, and otherwise redirects to / (303) whether or
\* not the removal succeeded.
C11_DeleteAnswers ==
    last.handler = "delete" =>
        /\ ~enableDelete => last.code = 403
        /\ (enableDelete /\ "password" \in last.failed) => last.code = 401
        /\ (enableDelete /\ "password" \notin last.failed) => last.code = 303

\* C12: checkPassword returns true exactly when no password is configured or the
\* supplied password equals the configured one; with no password configured every
\* supplied value, the empty one included, is accepted.
C12_AccessGate ==
    \A sent \in SentPasswords :
        /\ checkPassword(sent) <=> (password = "" \/ sent = password)
        /\ password = "" => checkPassword(sent)

\* with no password configured, a delete went past the password check and removed
\* a file
C12_Witness ==
    /\ password = ""
    /\ last.handler = "delete"
    /\ "password" \in { last.steps[i] : i \in DOMAIN last.steps }
    /\ "password" \notin last.failed
    /\ last.op = "remove"
    /\ last.failed = {}

DownloadStep(urlPath) == main_download(urlPath) \/ downloadHandler(urlPath)

\* C13: a download is answered without a password check and without the rate
\* limiter: it is never answered 401 or 429, a file below the root is sent with its
\* content whatever password is configured and however recently the client was
\* admitted, and the request changes neither the file store nor the access record.
C13_DownloadOpenAndPure ==
    [][last'.handler = "download" =>
          \A rel \in RelPaths :
              LET url    == DownloadPrefix \o rel
                  target == securePath(rel).path
              IN  DownloadStep(url) =>
                      /\ fs' = fs
                      /\ tracker' = tracker
                      /\ last'.code \notin {401, 429}
                      /\ (IsFile(fs, target) /\ ~ContainsDotDot(url)) =>
                             /\ last'.code = 200
                             /\ last'.body = fs[target].data]_vars

\* with a password configured, a client the limiter would turn away right now has
\* downloaded a file
C13_Witness ==
    /\ password # ""
    /\ last.handler = "download"
    /\ last.code = 200
    /\ last.kind = "file"
    /\ \E h \in Callers : TooSoon(tracker.lastAccess, h, now)
    /\ fs # InitialFs(rootDir)

\* C14 as claimed: with a password configured, an upload with a wrong or missing
\* password is answered 401 and leaves the file store as it was.
C14_WrongPasswordUnauthorized ==
    [][last'.handler = "upload" =>
          \A req \in UploadRequests :
              (WrongPassword(req.sent) /\ UploadStep(req)) =>
                  (last'.code = 401 /\ fs' = fs)]_vars

\* C14, amended: with a password configured, an upload with a wrong or missing
\* password leaves the file store as it was and is answered with an error: 401 when
\* the password check is the step that fails, and otherwise the answer of the step
\* that rejected the request before the password was looked at (429 from the rate
\* check, 400 from the bounded parse, 405 from the method check of v1.0).
C14_WrongPasswordWritesNothing ==
    [][last'.handler = "upload" =>
          LET turnedAway ==
                  /\ fs' = fs
                  /\ last'.op = "none"
                  /\ last'.code \in {401, 429, 400, 405}
                  /\ last'.code = 401 <=> last'.failed = {"password"}
                  /\ last'.code = 429 <=> last'.failed = {"rate"}
                  /\ last'.code = 400 <=> last'.failed = {"parse"}
                  /\ last'.code = 405 <=> last'.failed = {"method"}
          IN  \/ turnedAway
              \/ \A req \in UploadRequests :
                     ~(WrongPassword(req.sent) /\ UploadStep(req))]_vars

\* with a password configured, an upload was answered 401 while the root held an
\* uploaded file with content
C14_Witness ==
    /\ password # ""
    /\ last.handler = "upload"
    /\ last.code = 401
    /\ IsFile(fs, Abs(rootDir) \o <<"/", "b">>)
    /\ fs[Abs(rootDir) \o <<"/", "b">>].data # <<>>

\* C15: the upload destination is securePath(Base(file name)), and when that
\* resolution is denied or yields no path strictly below the root (file name ".."),
\* the upload is answered 403 and nothing is written.
C15_BadDestinationForbidden ==
    [][last'.handler = "upload" =>
          \A req \in UploadRequests :
              LET dst == securePath(Base(req.filename)) IN
              (UploadStep(req) /\ "path" \in { last'.steps[i] : i \in DOMAIN last'.steps }) =>
                  /\ last'.op = "create" => last'.path = dst.path
                  /\ (dst.err \/ ~Below(Abs(rootDir), dst.path)) =>
                         (last'.code = 403 /\ fs' = fs)]_vars

\* what securePath returned for requestedPath
Resolved == [path |-> resolved.path, err |-> resolved.err]

\* C16: securePath(p) is securePath of the cleaned p, so two paths that clean to the
\* same path resolve to the same result; securePath("a/../b") is securePath("b");
\* and the path that passed the prefix check is a cleaned one.
C16_DependsOnCleanedForm ==
    ~resolved.pending =>
        /\ Resolved = securePath(Clean(requestedPath))
        /\ \A q \in ExamplePaths :
              Clean(q) = Clean(requestedPath) => securePath(q) = Resolved
        /\ requestedPath = <<"a", "/", ".", ".", "/", "b">> => Resolved = securePath(<<"b">>)
        /\ ~resolved.err => Clean(resolved.path) = resolved.path

\* "a/../b" has been resolved to <root>/b
C16_Witness ==
    /\ ~resolved.pending
    /\ requestedPath = <<"a", "/", ".", ".", "/", "b">>
    /\ ~resolved.err
    /\ resolved.path = RootA \o <<"/", "b">>

\* the regular files directly under the root
RootFiles(f) == { p \in Children(f, rootDir) : ~IsDir(f, p) }

\* C17: a listing holds exactly the non-directory entries directly under the root,
\* each once and with its current size and time, most recently modified first; it
\* is computed from the file store as it is at the request, which it leaves alone,
\* so it shows the effect of every earlier upload and delete, and a second listing
\* with no change in between is the same sequence.
C17_ListingLiveAndOrdered ==
    [][(last'.handler = "index" /\ last'.kind = "listing") =>
          LET files == last'.body IN
          /\ fs' = fs
          /\ Len(files) = Cardinality(RootFiles(fs'))
          /\ { files[i] : i \in DOMAIN files } = { FileInfo(fs', p) : p \in RootFiles(fs') }
          /\ \A i, j \in DOMAIN files : i < j => files[i].ModTime >= files[j].ModTime
          /\ (last.handler = "index" /\ last.kind = "listing") => last'.body = last.body]_vars

\* a listing of a root that holds a directory, an old file and a file uploaded
\* later: the upload comes first, the directory is left out
C17_Witness ==
    /\ last.handler = "index"
    /\ last.kind = "listing"
    /\ Len(last.body) = 2
    /\ last.body[1].Name = <<"b">>
    /\ last.body[2].Name = <<"c">>
    /\ last.body[1].ModTime > last.body[2].ModTime
    /\ IsDir(fs, rootDir \o <<"/", "d">>)

\* C18: the path an accepted delete request hands to the removal is strictly below
\* the root, whatever the path field holds: the root directory itself is never
\* removed.
C18_DeleteNeverTargetsRoot ==
    (last.handler = "delete" /\ last.op = "remove") =>
        /\ Below(Abs(rootDir), last.path)
        /\ IsDir(fs, Abs(rootDir))

\* C19: every upload that the rate check admits has the client's access time
\* recorded as the time of the request, whatever a later step answers (400, 401, 405,
\* 500 or 303), and an upload of a client whose recorded time is less than a second
\* old is answered 429 and changes nothing, however valid it is.  (Every upload of
\* this specification comes from the one client of Callers; a step that leaves the
\* clock alone and ends with an upload's answer is an upload.)
C19_AdmissionConsumesSlot ==
    [][(last'.handler = "upload" /\ now' = now) =>
          \A h \in Callers :
              /\ last'.code # 429 =>
                     /\ h \in DOMAIN tracker'.lastAccess
                     /\ tracker'.lastAccess[h] = now
                     /\ TooSoon(tracker'.lastAccess, h, now)
              /\ TooSoon(tracker.lastAccess, h, now) <=> last'.code = 429
              /\ last'.code = 429 => (fs' = fs /\ tracker' = tracker)]_vars

\* v1.1 with deleting disabled: an upload is answered 429 although no upload has
\* written anything, so the upload that took the slot was itself rejected
C19_Witness ==
    /\ build = "v11"
    /\ ~enableDelete
    /\ last.handler = "upload"
    /\ last.code = 429
    /\ fs = InitialFs(rootDir)

=============================================================================
